---------------------------- MODULE Spec2Model ----------------------------
(***************************************************************************)
(* Order Ledger of the marketplace backend: the handlers of                *)
(* src/src/routes/transaction.py (create_order, confirm_payment,           *)
(* ship_order, confirm_delivery, complete_order, cancel_order) and the     *)
(* seller's update_item / delete_item of src/src/routes/item.py, over the  *)
(* rows of src/src/models/transaction.py and src/src/models/item.py.       *)
(*                                                                         *)
(* Money is Decimal in the code.  Here an amount is an integer number of   *)
(* 1/10000 currency units, so 100.00 AED is 1000000 and one cent is 100.   *)
(* A Numeric(10, 2) column keeps multiples of 100.                         *)
(***************************************************************************)
EXTENDS Integers, Sequences, FiniteSets, TLC

\* ------------------------------------------------------------------ bounds

\* Most Order rows the model creates.
MaxOrders == 2

\* Confirm Payment is not accepted by the model once the order has this many
\* Transaction rows (the code has no such limit: a gateway-backed confirmation
\* can be repeated for ever).
MaxTransactions == 2

\* --------------------------------------------------------------- constants

NULL == "NULL"

\* data.get('shipping_cost', 15.00)
DefaultShipping == 150000

\* Decimal('2.50')
FlatFee == 25000

\* Decimal('0.05'), in hundredths
FeePercent == 5

\* One cent, the resolution of a Numeric(10, 2) column.
Cent == 100

\* u1 sells, u2 and u3 buy.
Users == {"u1", "u2", "u3"}

ItemIds == {"i1", "i2"}

\* An item_id that names no row of the items table.
UnknownItem == "i9"

\* A required field that the request body does not carry.
Missing == "missing"

\* items.seller_id
SellerOf(i) == "u1"

AddrIds == {"a2", "a3"}

\* Listed prices (100.00 and 0.08).
Prices == {1000000, 800}

\* The shipping_cost of a request body, as its JSON text: the key absent, or
\* a number, or a value Decimal() cannot parse.
NoShipping == "absent"

BadNumber == "abc"

ShippingInputs == {NoShipping, "15.004", BadNumber}

\* Decimal(str(v)) of a number in the body, exactly.
ParseDecimal(s) == CASE s = "15.004" -> 150040 [] s = "-5.00" -> -50000

ItemStatuses == {"available", "reserved", "sold", "deleted"}

PaymentMethods == {"cod", "card"}

TrackingNumbers == {NULL, "T1"}

\* The request slots of the web server: each runs one handler at a time, and
\* two of them may run at once.
Workers == {"w1", "w2"}

VARIABLES
  items,         \* items table: id -> [seller_id, price, currency, status]
  addresses,     \* addresses table: id -> user_id
  orders,        \* orders table, in insertion order; the id is the index
  transactions,  \* transactions table: order id -> its rows, in insertion order
  shipments,     \* shipments table: order id -> its rows, in insertion order
  response,      \* the response sent last
  inflight       \* per worker: the request it has read and validated for

vars == <<items, addresses, orders, transactions, shipments, response, inflight>>

\* The tables the handlers write.
db == <<items, orders, transactions, shipments>>

\* --------------------------------------------------------------- responses

Resp(code, text) == [code |-> code, text |-> text]

\* get_or_404 / first_or_404 raise werkzeug's NotFound inside the handler's
\* try block; `except Exception` catches it and answers 500 with its text.
NotFound == Resp(500, "404 Not Found")

\* Every check of a handler passed.
Accepted == Resp(0, "")

\* --------------------------------------------------------- column rounding

\* The value a Numeric(10, 2) column holds after x is written to it: the
\* nearest multiple of a cent, a half rounded away from zero (PostgreSQL's
\* numeric and MySQL's DECIMAL).  No amount the model computes is an exact
\* half cent, so the backend's rule for ties does not show.
Numeric2(x) ==
  IF x >= 0 THEN ((x + Cent \div 2) \div Cent) * Cent
            ELSE -((((-x) + Cent \div 2) \div Cent) * Cent)

\* ----------------------------------------------------------------- pricing

\* shipping_cost = Decimal(str(data.get('shipping_cost', 15.00)))
ShippingCost(s) == IF s = NoShipping THEN DefaultShipping ELSE ParseDecimal(s)

\* buyer_protection_fee = item_price * Decimal('0.05') + Decimal('2.50')
BuyerProtectionFee(item_price) == (item_price * FeePercent) \div 100 + FlatFee

\* total_price = item_price + shipping_cost + buyer_protection_fee
TotalPrice(item_price, shipping_cost, buyer_protection_fee) ==
  item_price + shipping_cost + buyer_protection_fee

\* The Order row create_order builds from the item it read: each amount is
\* computed unrounded and then written to its own Numeric(10, 2) column.
OrderRow(u, i, a, s, item) ==
  LET item_price == item.price
      shipping_cost == ShippingCost(s)
      fee == BuyerProtectionFee(item_price)
      total == TotalPrice(item_price, shipping_cost, fee)
  IN  [buyer_id |-> u, seller_id |-> item.seller_id, item_id |-> i,
       shipping_address_id |-> a,
       item_price |-> Numeric2(item_price),
       shipping_cost |-> Numeric2(shipping_cost),
       buyer_protection_fee |-> Numeric2(fee),
       total_price |-> Numeric2(total),
       currency |-> item.currency,
       order_status |-> "pending", payment_status |-> "pending",
       shipped_at |-> NULL, delivered_at |-> NULL, completed_at |-> NULL]

\* ------------------------------------------------------------ table lookups

OrderIds == 1..Len(orders)

\* order.transactions
TransactionsOf(o) == transactions[o]

\* order.shipments
ShipmentsOf(o) == shipments[o]

\* Order.query.filter_by(id=order_id, buyer_id=current_user.id)
OwnedByBuyer(u, o) == o \in OrderIds /\ orders[o].buyer_id = u

\* A lookup of the Order by its id alone.
KnownOrder(u, o) == o \in OrderIds

\* Order.query.filter_by(id=order_id, seller_id=current_user.id)
OwnedBySeller(u, o) == o \in OrderIds /\ orders[o].seller_id = u

\* (Order.buyer_id == current_user.id) | (Order.seller_id == current_user.id)
OwnedByParty(u, o) ==
  o \in OrderIds /\ (orders[o].buyer_id = u \/ orders[o].seller_id = u)

\* Address.query.filter_by(id=..., user_id=current_user.id)
OwnedAddress(u, a) == a \in AddrIds /\ addresses[a] = u

\* Item.query.filter_by(id=item_id, seller_id=current_user.id)
OwnedItem(u, i) == i \in ItemIds /\ items[i].seller_id = u

\* ------------------------------------------------------------- the session
\* A handler changes rows in db.session and commits once, at its end; its
\* `except Exception` branch calls db.session.rollback().

\* The four tables as the handler found them.
Tables ==
  [items |-> items, orders |-> orders, transactions |-> transactions,
   shipments |-> shipments]

\* db.session.commit(): the session's rows become the tables.
Commit(session) ==
  /\ items' = session.items
  /\ orders' = session.orders
  /\ transactions' = session.transactions
  /\ shipments' = session.shipments

\* An error branch that persists what the session held.
CommitAnyway(session) == Commit(session)

\* db.session.rollback(): what the session held is dropped.
Rollback(session) == UNCHANGED db

\* A commit, flush or insert of an accepted request failed (the database
\* went away, a constraint fired): the text of the exception is answered
\* with 500.
Failure == Resp(500, "OperationalError")

\* ------------------------------------------------------------ create_order

\* A create_order that refuses only items already sold.
NotSold(item) == item.status # "sold"

\* item.status != 'available'
Available(item) == item.status = "available"

\* A create_order that lets anybody buy.
AnyBuyer(u, item) == FALSE

\* item.seller_id == current_user.id
SelfPurchase(u, item) == item.seller_id = u

\* What create_order answers before it writes anything; Accepted when every
\* check passes.
CreateOrderCheck(u, i, a, s) ==
  CASE i = Missing -> Resp(400, "item_id is required")
    [] a = Missing -> Resp(400, "shipping_address_id is required")
    [] i \notin ItemIds -> NotFound
    [] ~Available(items[i]) -> Resp(400, "Item is not available")
    [] SelfPurchase(u, items[i]) -> Resp(400, "Cannot buy your own item")
    [] ~OwnedAddress(u, a) -> NotFound
    [] s = BadNumber -> Resp(500, "InvalidOperation")
    [] OTHER -> Accepted

\* A reservation that forgets which item it is for.
ReserveEveryItem(its, i) == [j \in DOMAIN its |-> [its[j] EXCEPT !.status = "reserved"]]

\* item.status = 'reserved'
ReserveItem(its, i) == [its EXCEPT ![i].status = "reserved"]

\* db.session.add(order); db.session.flush(); item.status = 'reserved'
CreateOrderSession(row) ==
  [Tables EXCEPT !.orders = Append(orders, row),
                 !.transactions = Append(transactions, <<>>),
                 !.shipments = Append(shipments, <<>>),
                 !.items = ReserveItem(items, row.item_id)]

\* db.session.add(order); item.status = 'reserved'; db.session.commit()
CreateOrderWrite(row) ==
  /\ Len(orders) < MaxOrders
  /\ Commit(CreateOrderSession(row))

CreateOrder(u, i, a, s) ==
  LET check == CreateOrderCheck(u, i, a, s) IN
  /\ IF check # Accepted
       THEN /\ response' = check
            /\ UNCHANGED db
       ELSE /\ CreateOrderWrite(OrderRow(u, i, a, s, items[i]))
            /\ response' = Resp(201, "Order created successfully")
  /\ UNCHANGED <<addresses, inflight>>

\* --------------------------------------------------------- confirm_payment

\* A confirm_payment that refuses only refunded orders.
NotRefunded(order) == order.payment_status # "refunded"

\* order.payment_status != 'pending'
PaymentPending(order) == order.payment_status = "pending"

ConfirmPaymentCheck(u, o) ==
  CASE ~OwnedByBuyer(u, o) -> NotFound
    [] ~PaymentPending(orders[o]) -> Resp(400, "Payment already processed")
    [] OTHER -> Accepted

\* status='success' if payment_method == 'cod' else 'pending'
PaymentTransactionStatus(m) == IF m = "cod" THEN "success" ELSE "pending"

\* The payment Transaction row.
PaymentTransaction(o, m) ==
  [order_id |-> o, amount |-> Numeric2(orders[o].total_price),
   currency |-> orders[o].currency, transaction_type |-> "payment",
   status |-> PaymentTransactionStatus(m), payment_method |-> m]

\* A confirmation that never marks the order paid.
PaymentStaysPending(m) == "pending"

\* order.payment_status after confirm_payment
PaymentStatusAfter(m) == IF m = "cod" THEN "paid" ELSE "pending"

\* A confirmation that confirms the order whatever the method.
AlwaysConfirmed(m) == "confirmed"

\* order.order_status after confirm_payment
OrderStatusAfterPayment(m) == IF m = "cod" THEN "confirmed" ELSE "pending"

\* db.session.add(transaction); order.payment_status = ...; order.order_status = ...
ConfirmPaymentSession(o, m) ==
  [Tables EXCEPT
     !.transactions = [transactions EXCEPT ![o] = Append(@, PaymentTransaction(o, m))],
     !.orders = [orders EXCEPT ![o].payment_status = PaymentStatusAfter(m),
                               ![o].order_status = OrderStatusAfterPayment(m)]]

ConfirmPayment(u, o, m) ==
  LET check == ConfirmPaymentCheck(u, o) IN
  /\ IF check # Accepted
       THEN /\ response' = check
            /\ UNCHANGED db
       ELSE /\ Len(transactions[o]) < MaxTransactions
            /\ Commit(ConfirmPaymentSession(o, m))
            /\ response' = Resp(200, "Payment confirmed successfully")
  /\ UNCHANGED <<addresses, inflight>>

\* -------------------------------------------------------------- ship_order

\* A ship_order that accepts an order once it is confirmed or paid for.
ShippableIfPaid(order) ==
  order.order_status = "confirmed" \/ order.payment_status = "paid"

\* A ship_order that also accepts orders not yet paid for.
ShippableUnpaid(order) == order.order_status \in {"pending", "confirmed", "paid"}

\* order.order_status not in ['confirmed', 'paid']
Shippable(order) == order.order_status \in {"confirmed", "paid"}

\* A shipments table without the unique constraint.
NeverTaken(t) == FALSE

\* shipments.tracking_number is unique; NULLs do not collide.
TrackingTaken(t) ==
  /\ t # NULL
  /\ \E o \in OrderIds : \E k \in 1..Len(shipments[o]) : shipments[o][k].tracking_number = t

ShipOrderCheck(u, o, t) ==
  CASE ~OwnedBySeller(u, o) -> NotFound
    [] ~Shippable(orders[o]) -> Resp(400, "Order cannot be shipped in current status")
    [] TrackingTaken(t) -> Resp(500, "IntegrityError")
    [] OTHER -> Accepted

\* A Shipment row left with the column's default status.
DefaultStatusShipment(o, t) ==
  [order_id |-> o, carrier |-> "Aramex", tracking_number |-> t,
   shipping_cost |-> Numeric2(orders[o].shipping_cost),
   currency |-> orders[o].currency, status |-> "pending",
   actual_delivery |-> NULL]

\* shipment = Shipment(..., status='picked_up', ...)
NewShipment(o, t) ==
  [order_id |-> o, carrier |-> "Aramex", tracking_number |-> t,
   shipping_cost |-> Numeric2(orders[o].shipping_cost),
   currency |-> orders[o].currency, status |-> "picked_up",
   actual_delivery |-> NULL]

\* item.status = 'sold'
SellItem(its, i) == [its EXCEPT ![i].status = "sold"]

\* db.session.add(shipment); order.order_status = 'shipped'; item.status = 'sold'
ShipOrderSession(o, t) ==
  [Tables EXCEPT
     !.shipments = [shipments EXCEPT ![o] = Append(@, NewShipment(o, t))],
     !.orders = [orders EXCEPT ![o].order_status = "shipped", ![o].shipped_at = "set"],
     !.items = SellItem(items, orders[o].item_id)]

\* The INSERT of a Shipment with a tracking number already in the table
\* raises IntegrityError when the session is flushed; the handler rolls back.
ShipOrder(u, o, t) ==
  LET check == ShipOrderCheck(u, o, t) IN
  /\ IF check = Resp(500, "IntegrityError")
       THEN /\ response' = check
            /\ Rollback(ShipOrderSession(o, t))
       ELSE IF check # Accepted
       THEN /\ response' = check
            /\ UNCHANGED db
       ELSE /\ Commit(ShipOrderSession(o, t))
            /\ response' = Resp(200, "Order shipped successfully")
  /\ UNCHANGED <<addresses, inflight>>

\* -------------------------------------------------------- confirm_delivery

ConfirmDeliveryCheck(u, o) ==
  CASE ~OwnedByBuyer(u, o) -> NotFound
    [] orders[o].order_status # "shipped" -> Resp(400, "Order is not in shipped status")
    [] OTHER -> Accepted

\* A delivery that stamps the Shipment's time and forgets its status.
StampShipment(shipment) == [shipment EXCEPT !.actual_delivery = "set"]

\* shipment.status = 'delivered'; shipment.actual_delivery = now
DeliverShipment(shipment) ==
  [shipment EXCEPT !.status = "delivered", !.actual_delivery = "set"]

\* Shipment.query.filter_by(order_id=order.id).first() has no ORDER BY: any
\* one Shipment row of the order, or none (0) when it has no Shipment.
FirstShipments(o) ==
  IF ShipmentsOf(o) = <<>> THEN {0} ELSE 1..Len(ShipmentsOf(o))

\* order.order_status = 'delivered'; shipment k of the order is delivered
ConfirmDeliverySession(o, k) ==
  [Tables EXCEPT
     !.orders = [orders EXCEPT ![o].order_status = "delivered",
                               ![o].delivered_at = "set"],
     !.shipments = IF k = 0 THEN shipments
                   ELSE [shipments EXCEPT ![o][k] = DeliverShipment(@)]]

ConfirmDelivery(u, o) ==
  LET check == ConfirmDeliveryCheck(u, o) IN
  /\ IF check # Accepted
       THEN /\ response' = check
            /\ UNCHANGED db
       ELSE /\ \E k \in FirstShipments(o) : Commit(ConfirmDeliverySession(o, k))
            /\ response' = Resp(200, "Delivery confirmed successfully")
  /\ UNCHANGED <<addresses, inflight>>

\* ---------------------------------------------------------- complete_order

\* A complete_order that can be repeated.
DeliveredOrCompleted(order) == order.order_status \in {"delivered", "completed"}

\* order.order_status != 'delivered'
Delivered(order) == order.order_status = "delivered"

CompleteOrderCheck(u, o) ==
  CASE ~OwnedByBuyer(u, o) -> NotFound
    [] ~Delivered(orders[o]) ->
         Resp(400, "Order must be delivered before completion")
    [] OTHER -> Accepted

\* A payout of everything the buyer paid, the platform's fee included.
PayoutOfTotal(order) == order.total_price

\* payout_amount = order.item_price + order.shipping_cost
PayoutAmount(order) == order.item_price + order.shipping_cost

PayoutTransaction(o) ==
  [order_id |-> o, amount |-> Numeric2(PayoutAmount(orders[o])),
   currency |-> orders[o].currency, transaction_type |-> "payout",
   status |-> "success", payment_method |-> "wallet"]

\* db.session.add(payout_transaction); order.order_status = 'completed'
CompleteOrderSession(o) ==
  [Tables EXCEPT
     !.transactions = [transactions EXCEPT ![o] = Append(@, PayoutTransaction(o))],
     !.orders = [orders EXCEPT ![o].order_status = "completed",
                               ![o].completed_at = "set"]]

CompleteOrder(u, o) ==
  LET check == CompleteOrderCheck(u, o) IN
  /\ IF check # Accepted
       THEN /\ response' = check
            /\ UNCHANGED db
       ELSE /\ Commit(CompleteOrderSession(o))
            /\ response' = Resp(200, "Order completed successfully")
  /\ UNCHANGED <<addresses, inflight>>

\* ------------------------------------------------------------ cancel_order

\* A cancel_order still open after the parcel has left.
CancellableUntilDelivered(order) ==
  order.order_status \in {"pending", "confirmed", "shipped"}

\* order.order_status not in ['pending', 'confirmed']
Cancellable(order) == order.order_status \in {"pending", "confirmed"}

CancelOrderCheck(u, o) ==
  CASE ~OwnedByParty(u, o) -> NotFound
    [] ~Cancellable(orders[o]) -> Resp(400, "Order cannot be cancelled in current status")
    [] OTHER -> Accepted

\* if order.payment_status == 'paid'
RefundDue(order) == order.payment_status = "paid"

\* order.transactions[0].payment_method if order.transactions else 'cod'.
\* The relationship has no order_by, so element 0 is whichever row the
\* database returns first: any Transaction row of the order.
RefundMethods(o) ==
  IF TransactionsOf(o) = <<>> THEN {"cod"}
  ELSE {TransactionsOf(o)[k].payment_method : k \in 1..Len(TransactionsOf(o))}

\* A refund priced again from the item's listing at the time of the refund.
RefundOfListedPrice(order) ==
  TotalPrice(items[order.item_id].price, order.shipping_cost,
             BuyerProtectionFee(items[order.item_id].price))

\* A refund of the item's price alone.
RefundOfItemPrice(order) == order.item_price

\* amount=order.total_price
RefundAmount(order) == order.total_price

RefundTransaction(o, method) ==
  [order_id |-> o, amount |-> Numeric2(RefundAmount(orders[o])),
   currency |-> orders[o].currency, transaction_type |-> "refund",
   status |-> "success", payment_method |-> method]

\* item.status = 'available'
ReleaseItem(its, i) == [its EXCEPT ![i].status = "available"]

\* What cancel_order writes for order o, having read the Order row `seen`:
\* order.order_status = 'cancelled'; item.status = 'available'; the refund
\* and payment_status = 'refunded' if the row it read was paid.
CancelOrderWrites(o, seen, method) ==
  [Tables EXCEPT
     !.items = ReleaseItem(items, orders[o].item_id),
     !.transactions =
        IF RefundDue(seen)
          THEN [transactions EXCEPT ![o] = Append(@, RefundTransaction(o, method))]
          ELSE transactions,
     !.orders =
        IF RefundDue(seen)
          THEN [orders EXCEPT ![o].order_status = "cancelled",
                              ![o].payment_status = "refunded"]
          ELSE [orders EXCEPT ![o].order_status = "cancelled"]]

\* The session of a cancel_order that runs alone.
CancelOrderSession(o, method) == CancelOrderWrites(o, orders[o], method)

CancelOrder(u, o) ==
  LET check == CancelOrderCheck(u, o) IN
  /\ IF check # Accepted
       THEN /\ response' = check
            /\ UNCHANGED db
       ELSE /\ \E method \in RefundMethods(o) : Commit(CancelOrderSession(o, method))
            /\ response' = Resp(200, "Order cancelled successfully")
  /\ UNCHANGED <<addresses, inflight>>

\* ------------------------------------------------ update_item, delete_item

\* A field the request body of update_item does not carry.
Keep == "keep"

\* setattr(item, field, data[field]) for the fields price and status; price
\* 0 stands for a body without the key price.
UpdatedItem(item, price, status) ==
  [item EXCEPT !.price = IF price = 0 THEN @ ELSE Numeric2(price),
               !.status = IF status = Keep THEN @ ELSE status]

UpdateItem(u, i, price, status) ==
  /\ IF ~OwnedItem(u, i)
       THEN /\ response' = NotFound
            /\ UNCHANGED items
       ELSE /\ items' = [items EXCEPT ![i] = UpdatedItem(@, price, status)]
            /\ response' = Resp(200, "Item updated successfully")
  /\ UNCHANGED <<addresses, orders, transactions, shipments, inflight>>

\* A soft delete.
DeleteItem(u, i) ==
  /\ IF ~OwnedItem(u, i)
       THEN /\ response' = NotFound
            /\ UNCHANGED items
       ELSE /\ items' = [items EXCEPT ![i].status = "deleted"]
            /\ response' = Resp(200, "Item deleted successfully")
  /\ UNCHANGED <<addresses, orders, transactions, shipments, inflight>>

\* ------------------------------------------------------- the specification

\* A worker between requests.
Idle ==
  [phase |-> "idle", user |-> NULL, item |-> NULL, addr |-> NULL, ship |-> NoShipping,
   seen |-> 0, row |-> <<>>, response |-> Accepted]

InitialItems ==
  [i \in ItemIds |->
     [seller_id |-> SellerOf(i), price |-> IF i = "i1" THEN 1000000 ELSE 800,
      currency |-> "AED", status |-> "available"]]

\* The database before the first request: two listings of u1, no orders.
InitTables ==
  /\ items = InitialItems
  /\ orders = <<>>
  /\ transactions = <<>>
  /\ shipments = <<>>
  /\ response = Accepted
  /\ inflight = [w \in Workers |-> Idle]

\* a2 is the address of u2 and a3 one of u1; u3 has none.
Init ==
  /\ InitTables
  /\ addresses = [a \in AddrIds |-> IF a = "a2" THEN "u2" ELSE "u1"]

\* The requests the model sends.  A request that lacks a required field, or
\* names an unknown item or somebody else's address, is sent with one choice
\* of its other fields, which the handler does not get to read.
Next ==
  \/ \E u \in Users, i \in ItemIds, s \in ShippingInputs : CreateOrder(u, i, "a2", s)
  \/ \E u \in Users, i \in ItemIds : CreateOrder(u, i, "a3", NoShipping)
  \/ \E u \in Users, i \in {UnknownItem, Missing} : CreateOrder(u, i, "a2", NoShipping)
  \/ \E u \in Users, i \in ItemIds : CreateOrder(u, i, Missing, NoShipping)
  \/ \E u \in Users, o \in 1..MaxOrders, m \in PaymentMethods : ConfirmPayment(u, o, m)
  \/ \E u \in Users, o \in 1..MaxOrders, t \in TrackingNumbers : ShipOrder(u, o, t)
  \/ \E u \in Users, o \in 1..MaxOrders : ConfirmDelivery(u, o)
  \/ \E u \in Users, o \in 1..MaxOrders : CompleteOrder(u, o)
  \/ \E u \in Users, o \in 1..MaxOrders : CancelOrder(u, o)

Spec == Init /\ [][Next]_vars

\* The ledger's handlers and the seller's delete_item.
NextItems ==
  \/ Next
  \/ \E u \in Users, i \in ItemIds \cup {UnknownItem} : DeleteItem(u, i)

SpecItems == Init /\ [][NextItems]_vars

\* ------------------------------------------------- requests that fail late
\* An accepted request whose insert, flush or commit raises: the handler's
\* `except Exception` branch rolls the session back and answers 500.

CreateOrderFails(u, i, a, s) ==
  /\ CreateOrderCheck(u, i, a, s) = Accepted
  /\ Rollback(CreateOrderSession(OrderRow(u, i, a, s, items[i])))
  /\ response' = Failure
  /\ UNCHANGED <<addresses, inflight>>

ConfirmPaymentFails(u, o, m) ==
  /\ ConfirmPaymentCheck(u, o) = Accepted
  /\ Rollback(ConfirmPaymentSession(o, m))
  /\ response' = Failure
  /\ UNCHANGED <<addresses, inflight>>

ShipOrderFails(u, o, t) ==
  /\ ShipOrderCheck(u, o, t) = Accepted
  /\ Rollback(ShipOrderSession(o, t))
  /\ response' = Failure
  /\ UNCHANGED <<addresses, inflight>>

ConfirmDeliveryFails(u, o) ==
  /\ ConfirmDeliveryCheck(u, o) = Accepted
  /\ \E k \in FirstShipments(o) : Rollback(ConfirmDeliverySession(o, k))
  /\ response' = Failure
  /\ UNCHANGED <<addresses, inflight>>

CompleteOrderFails(u, o) ==
  /\ CompleteOrderCheck(u, o) = Accepted
  /\ Rollback(CompleteOrderSession(o))
  /\ response' = Failure
  /\ UNCHANGED <<addresses, inflight>>

CancelOrderFails(u, o) ==
  /\ CancelOrderCheck(u, o) = Accepted
  /\ \E method \in RefundMethods(o) : Rollback(CancelOrderSession(o, method))
  /\ response' = Failure
  /\ UNCHANGED <<addresses, inflight>>

\* The ledger's handlers, each of which may also fail after its checks.
NextFault ==
  \/ Next
  \/ \E u \in Users, i \in ItemIds, s \in ShippingInputs : CreateOrderFails(u, i, "a2", s)
  \/ \E u \in Users, o \in 1..MaxOrders, m \in PaymentMethods : ConfirmPaymentFails(u, o, m)
  \/ \E u \in Users, o \in 1..MaxOrders, t \in TrackingNumbers : ShipOrderFails(u, o, t)
  \/ \E u \in Users, o \in 1..MaxOrders : ConfirmDeliveryFails(u, o)
  \/ \E u \in Users, o \in 1..MaxOrders : CompleteOrderFails(u, o)
  \/ \E u \in Users, o \in 1..MaxOrders : CancelOrderFails(u, o)

SpecFault == Init /\ [][NextFault]_vars

\* The prices an update_item request carries: none (0), or a new price.
UpdatePrices == {0, 1200000}

\* The statuses an update_item request carries: none, or 'available'.
UpdateStatuses == {Keep, "available"}

\* The ledger's handlers with the seller's update_item and delete_item, the
\* seller's edits being those of the first listing.
NextUpdate ==
  \/ \E u \in Users, i \in ItemIds : CreateOrder(u, i, "a2", NoShipping)
  \/ \E u \in Users, o \in 1..MaxOrders, m \in PaymentMethods : ConfirmPayment(u, o, m)
  \/ \E u \in Users, o \in 1..MaxOrders, t \in TrackingNumbers : ShipOrder(u, o, t)
  \/ \E u \in Users, o \in 1..MaxOrders : ConfirmDelivery(u, o)
  \/ \E u \in Users, o \in 1..MaxOrders : CompleteOrder(u, o)
  \/ \E u \in Users, o \in 1..MaxOrders : CancelOrder(u, o)
  \/ \E u \in Users, i \in {"i1", UnknownItem}, price \in UpdatePrices,
        status \in UpdateStatuses : UpdateItem(u, i, price, status)
  \/ \E u \in Users : DeleteItem(u, "i1")

SpecUpdate == Init /\ [][NextUpdate]_vars

\* ---------------------------------------------- create_order, interleaved
\* Two requests run create_order at once.  The handler reads the item with a
\* plain SELECT (lines 28-39: no FOR UPDATE, no version check) and writes at
\* commit (lines 62-69): INSERT the order, UPDATE items SET status =
\* 'reserved' WHERE id = ...; the database serialises the two commits.

Free(w) == inflight[w].phase \in {"idle", "done"}

\* Lines 19-60 of create_order: read, validate, build the Order.
BeginCreateOrder(w, u, i, a, s) ==
  LET check == CreateOrderCheck(u, i, a, s)
      r == [phase |-> "done", user |-> u, item |-> i, addr |-> a, ship |-> s,
            seen |-> Len(orders), row |-> <<>>, response |-> check]
  IN
  /\ Free(w)
  /\ IF check # Accepted
       THEN /\ inflight' = [inflight EXCEPT ![w] = r]
            /\ response' = check
       ELSE /\ inflight' = [inflight EXCEPT ![w] =
                              [r EXCEPT !.phase = "validated",
                                        !.row = <<OrderRow(u, i, a, s, items[i])>>]]
            /\ UNCHANGED response
  /\ UNCHANGED <<db, addresses>>

\* Lines 62-74 of create_order: flush and commit what the request built.
CommitCreateOrder(w) ==
  /\ inflight[w].phase = "validated"
  /\ CreateOrderWrite(inflight[w].row[1])
  /\ response' = Resp(201, "Order created successfully")
  /\ inflight' = [inflight EXCEPT ![w].phase = "done", ![w].response = response']
  /\ UNCHANGED addresses

\* a2 is the address of u2 and a3 that of u3.
InitConc ==
  /\ InitTables
  /\ addresses = [a \in AddrIds |-> IF a = "a2" THEN "u2" ELSE "u3"]

NextConc ==
  \/ \E w \in Workers, u \in Users, i \in ItemIds, a \in AddrIds :
        BeginCreateOrder(w, u, i, a, NoShipping)
  \/ \E w \in Workers : CommitCreateOrder(w)

SpecConc == InitConc /\ [][NextConc]_vars

\* ------------------------------------------ transitions of an order, raced
\* Two requests run ship_order, cancel_order or complete_order at once.  Each
\* handler reads the Order with a plain SELECT (lines 196, 278, 319-322: no
\* FOR UPDATE, no version column) and checks its status; at commit its
\* UPDATEs carry the columns it assigned (no WHERE on the status it read)
\* and its INSERTs the rows it added.  The database serialises the commits.

Transitions == {"ship", "cancel", "complete"}

\* The buyer and the seller of the model's orders.
Parties == {"u1", "u2"}

\* A worker between requests.
Resting ==
  [phase |-> "idle", op |-> NULL, order |-> 0, tracking |-> NULL, seen |-> <<>>]

TransitionCheck(op, u, o, t) ==
  CASE op = "ship" -> ShipOrderCheck(u, o, t)
    [] op = "cancel" -> CancelOrderCheck(u, o)
    [] op = "complete" -> CompleteOrderCheck(u, o)

\* The handler up to its last check: the lookup and the status test.
BeginTransition(w, op, u, o, t) ==
  LET check == TransitionCheck(op, u, o, t) IN
  /\ inflight[w].phase = "idle"
  /\ IF check # Accepted
       THEN /\ response' = check
            /\ UNCHANGED inflight
       ELSE /\ inflight' = [inflight EXCEPT ![w] =
                              [phase |-> "validated", op |-> op, order |-> o,
                               tracking |-> t, seen |-> <<orders[o]>>]]
            /\ UNCHANGED response
  /\ UNCHANGED <<db, addresses>>

\* The rest of the handler: its writes and db.session.commit().
CommitTransition(w) ==
  LET r == inflight[w]
      o == r.order
  IN
  /\ r.phase = "validated"
  /\ CASE r.op = "ship" ->
            IF TrackingTaken(r.tracking)
              THEN /\ Rollback(ShipOrderSession(o, r.tracking))
                   /\ response' = Resp(500, "IntegrityError")
              ELSE /\ Commit(ShipOrderSession(o, r.tracking))
                   /\ response' = Resp(200, "Order shipped successfully")
       [] r.op = "cancel" ->
            /\ \E method \in RefundMethods(o) :
                 Commit(CancelOrderWrites(o, r.seen[1], method))
            /\ response' = Resp(200, "Order cancelled successfully")
       [] r.op = "complete" ->
            /\ Commit(CompleteOrderSession(o))
            /\ response' = Resp(200, "Order completed successfully")
  /\ inflight' = [inflight EXCEPT ![w] = Resting]
  /\ UNCHANGED addresses

InitRace ==
  /\ items = InitialItems
  /\ orders = <<>>
  /\ transactions = <<>>
  /\ shipments = <<>>
  /\ response = Accepted
  /\ inflight = [w \in Workers |-> Resting]
  /\ addresses = [a \in AddrIds |-> IF a = "a2" THEN "u2" ELSE "u1"]

\* Orders for the first listing are created, paid and delivered one request
\* at a time; their ship, cancel and complete requests overlap.
NextRace ==
  \/ CreateOrder("u2", "i1", "a2", NoShipping)
  \/ \E o \in 1..MaxOrders : ConfirmPayment("u2", o, "cod")
  \/ \E o \in 1..MaxOrders : ConfirmDelivery("u2", o)
  \/ \E w \in Workers, op \in Transitions, u \in Parties, o \in 1..MaxOrders,
        t \in TrackingNumbers : BeginTransition(w, op, u, o, t)
  \/ \E w \in Workers : CommitTransition(w)

SpecRace == InitRace /\ [][NextRace]_vars

\* ------------------------------------------------------------------ claims

\* C1: every Order's stored total_price is the sum of its stored item_price,
\* shipping_cost and buyer_protection_fee, in every reachable state.
C1_TotalIsSumOfStoredParts ==
  \A o \in OrderIds :
    orders[o].total_price =
      orders[o].item_price + orders[o].shipping_cost + orders[o].buyer_protection_fee

\* The requests of two workers ran create_order at once on one item: both
\* read the orders and items tables in the same state, and both have
\* answered.
RacedCreates(w1, w2) ==
  /\ w1 # w2
  /\ inflight[w1].phase = "done" /\ inflight[w2].phase = "done"
  /\ inflight[w1].item = inflight[w2].item
  /\ inflight[w1].user # inflight[w2].user
  /\ inflight[w1].seen = inflight[w2].seen
  /\ \A w \in {w1, w2} :
       /\ inflight[w].user # SellerOf(inflight[w].item)
       /\ OwnedAddress(inflight[w].user, inflight[w].addr)

\* C2: of two concurrent Create Order calls by different buyers against the
\* same available Item, exactly one succeeds and the other is rejected with
\* "Item is not available"; one Order exists for the Item, which is reserved.
C2_ExactlyOneCreateSucceeds ==
  \A w1, w2 \in Workers :
    (RacedCreates(w1, w2) /\ inflight[w1].response.code = 201) =>
      /\ inflight[w2].response = Resp(400, "Item is not available")
      /\ Cardinality({o \in OrderIds : orders[o].item_id = inflight[w1].item}) = 1
      /\ items[inflight[w1].item].status = "reserved"

\* C3: a Create Order call for an Item whose status is not `available`
\* (reserved, sold, deleted) is answered "Item is not available" and changes
\* no table: no step of create_order from such a state ends otherwise.
C3_UnavailableItemRejected ==
  \A u \in Users, i \in ItemIds, a \in AddrIds, s \in ShippingInputs :
    items[i].status # "available" =>
      ~ENABLED (/\ CreateOrder(u, i, a, s)
                /\ ~(response' = Resp(400, "Item is not available") /\ UNCHANGED db))

\* A Create Order call was just rejected while one item is sold and the
\* other deleted.
C3_Witness ==
  /\ response = Resp(400, "Item is not available")
  /\ items["i1"].status = "sold"
  /\ items["i2"].status = "deleted"

\* What a successful create_order by u for item i leaves behind.
CreateOrderEffect(u, i) ==
  LET new == Len(orders) + 1 IN
  /\ Len(orders') = new
  /\ orders'[new].item_id = i
  /\ orders'[new].buyer_id = u
  /\ orders'[new].order_status = "pending"
  /\ orders'[new].payment_status = "pending"
  /\ items'[i].status = "reserved"
  /\ \A j \in ItemIds \ {i} : items'[j] = items[j]
  /\ \A o \in OrderIds :
       /\ orders'[o] = orders[o]
       /\ transactions'[o] = transactions[o]
       /\ shipments'[o] = shipments[o]
  /\ transactions'[new] = <<>>
  /\ shipments'[new] = <<>>

\* C4: a successful Create Order appends one Order with order_status and
\* payment_status pending, sets the Item's status to reserved, and leaves
\* every other Item, every other Order and all Transactions and Shipments
\* as they were.
C4_CreateOrderFrame ==
  \A u \in Users, i \in ItemIds, a \in AddrIds, s \in ShippingInputs :
    ~ENABLED (/\ CreateOrder(u, i, a, s)
              /\ response' = Resp(201, "Order created successfully")
              /\ ~CreateOrderEffect(u, i))

\* A second Order was just created, for the second Item, beside an earlier
\* Order that has a Transaction and a Shipment.
C4_Witness ==
  /\ response = Resp(201, "Order created successfully")
  /\ Len(orders) = 2
  /\ orders[1].item_id # orders[2].item_id
  /\ orders[2].order_status = "pending"
  /\ transactions[1] # <<>>
  /\ shipments[1] # <<>>

\* The edges of the order_status state machine.
StatusEdges ==
  {<<"pending", "confirmed">>, <<"confirmed", "shipped">>, <<"shipped", "delivered">>,
   <<"delivered", "completed">>, <<"pending", "cancelled">>, <<"confirmed", "cancelled">>}

\* C5: no step changes an Order's order_status except along the edges
\* pending->confirmed, confirmed->shipped, shipped->delivered,
\* delivered->completed, pending->cancelled, confirmed->cancelled.
C5_StatusChangesAlongEdges ==
  [][\A o \in OrderIds :
       \/ orders'[o].order_status = orders[o].order_status
       \/ <<orders[o].order_status, orders'[o].order_status>> \in StatusEdges]_vars

\* The last row of a table's rows for one order.
Last(rows) == rows[Len(rows)]

\* What a successful cancel_order of order o leaves in the ledger.
CancelOrderRefund(o) ==
  /\ orders[o].payment_status = "paid" =>
       /\ Len(transactions'[o]) = Len(transactions[o]) + 1
       /\ SubSeq(transactions'[o], 1, Len(transactions[o])) = transactions[o]
       /\ Last(transactions'[o]).transaction_type = "refund"
       /\ Last(transactions'[o]).amount = orders[o].total_price
       /\ orders'[o].payment_status = "refunded"
       /\ \A p \in OrderIds \ {o} : transactions'[p] = transactions[p]
  /\ orders[o].payment_status = "pending" =>
       /\ transactions' = transactions
       /\ orders'[o].payment_status = "pending"

\* C6: a successful Cancel Order of an Order with payment_status paid
\* appends exactly one Transaction, of type refund and amount total_price,
\* and sets payment_status to refunded; of an Order with payment_status
\* pending it appends no Transaction and leaves payment_status pending.
C6_CancelRefundsPaidOrders ==
  \A u \in Users, o \in 1..MaxOrders :
    ~ENABLED (/\ CancelOrder(u, o)
              /\ response' = Resp(200, "Order cancelled successfully")
              /\ ~CancelOrderRefund(o))

\* An Order cancelled unpaid, with no refund, and an Order just cancelled
\* after payment, with its refund.
C6_Witness ==
  /\ response = Resp(200, "Order cancelled successfully")
  /\ Len(orders) = 2
  /\ orders[1].order_status = "cancelled"
  /\ orders[1].payment_status = "pending"
  /\ transactions[1] = <<>>
  /\ orders[2].order_status = "cancelled"
  /\ orders[2].payment_status = "refunded"
  /\ Len(transactions[2]) = 2
  /\ Last(transactions[2]).transaction_type = "refund"
  /\ Last(transactions[2]).amount = orders[2].total_price

\* What a successful complete_order of order o leaves behind.
CompleteOrderEffect(o) ==
  /\ response' = Resp(200, "Order completed successfully")
  /\ Len(transactions'[o]) = Len(transactions[o]) + 1
  /\ SubSeq(transactions'[o], 1, Len(transactions[o])) = transactions[o]
  /\ Last(transactions'[o]).transaction_type = "payout"
  /\ Last(transactions'[o]).status = "success"
  /\ Last(transactions'[o]).amount = orders[o].item_price + orders[o].shipping_cost
  /\ orders[o].buyer_protection_fee > 0 =>
       Last(transactions'[o]).amount < orders[o].total_price
  /\ orders'[o].order_status = "completed"

\* C7: Complete Order by the buyer of a delivered Order appends one payout
\* Transaction with status success and amount item_price + shipping_cost
\* (less than total_price when buyer_protection_fee > 0) and sets
\* order_status to completed; in any other order_status it is rejected and
\* changes no table.
C7_CompletePaysOutDeliveredOrders ==
  \A u \in Users, o \in OrderIds :
    IF orders[o].order_status = "delivered" /\ orders[o].buyer_id = u
      THEN ~ENABLED (CompleteOrder(u, o) /\ ~CompleteOrderEffect(o))
      ELSE ~ENABLED (/\ CompleteOrder(u, o)
                     /\ ~(response'.code # 200 /\ UNCHANGED db))

\* An Order was just completed and carries its payout.
C7_Witness ==
  /\ response = Resp(200, "Order completed successfully")
  /\ \E o \in OrderIds :
       /\ orders[o].order_status = "completed"
       /\ Last(transactions[o]).transaction_type = "payout"
       /\ Last(transactions[o]).amount < orders[o].total_price

\* C8: Ship Order on an Order whose order_status is pending is rejected (for
\* the seller, with "Order cannot be shipped in current status"): no
\* Shipment is inserted and no Order or Item changes.
C8_PendingOrderNotShipped ==
  \A u \in Users, o \in OrderIds, t \in TrackingNumbers :
    orders[o].order_status = "pending" =>
      ~ENABLED (/\ ShipOrder(u, o, t)
                /\ ~(/\ response'.code # 200
                     /\ u = orders[o].seller_id =>
                          response' = Resp(400, "Order cannot be shipped in current status")
                     /\ UNCHANGED db))

\* The seller's Ship Order was just rejected and every Order is pending,
\* unshipped, its Item reserved.
C8_Witness ==
  /\ response = Resp(400, "Order cannot be shipped in current status")
  /\ Len(orders) = 2
  /\ \A o \in OrderIds :
       /\ orders[o].order_status = "pending"
       /\ shipments[o] = <<>>
       /\ items[orders[o].item_id].status = "reserved"

\* What a successful confirm_payment with method cod leaves behind.
CodPaymentEffect(o) ==
  /\ response' = Resp(200, "Payment confirmed successfully")
  /\ Len(transactions'[o]) = Len(transactions[o]) + 1
  /\ SubSeq(transactions'[o], 1, Len(transactions[o])) = transactions[o]
  /\ Last(transactions'[o]).transaction_type = "payment"
  /\ Last(transactions'[o]).amount = orders[o].total_price
  /\ Last(transactions'[o]).status = "success"
  /\ orders'[o].order_status = "confirmed"
  /\ orders'[o].payment_status = "paid"

\* C9: Confirm Payment with method cod by the buyer of an Order with
\* payment_status pending appends exactly one Transaction, of type payment,
\* amount total_price and status success, and sets order_status to
\* confirmed and payment_status to paid in that step.
C9_CodPaymentConfirmsOrder ==
  \A u \in Users, o \in OrderIds :
    (orders[o].payment_status = "pending" /\ orders[o].buyer_id = u) =>
      ~ENABLED (ConfirmPayment(u, o, "cod") /\ ~CodPaymentEffect(o))

\* An Order was just confirmed by a cod payment.
C9_Witness ==
  /\ response = Resp(200, "Payment confirmed successfully")
  /\ \E o \in OrderIds :
       /\ orders[o].order_status = "confirmed"
       /\ orders[o].payment_status = "paid"
       /\ Len(transactions[o]) = 1
       /\ Last(transactions[o]).payment_method = "cod"
       /\ Last(transactions[o]).status = "success"
       /\ Last(transactions[o]).amount = orders[o].total_price

\* What a successful confirm_payment with a gateway-backed method should
\* leave behind.
GatewayPaymentEffect(o) ==
  /\ Len(transactions'[o]) = Len(transactions[o]) + 1
  /\ Last(transactions'[o]).transaction_type = "payment"
  /\ Last(transactions'[o]).status = "pending"
  /\ orders'[o].order_status = orders[o].order_status
  /\ orders'[o].payment_status = orders[o].payment_status

\* C10: a successful Confirm Payment with a gateway-backed method appends
\* the payment Transaction with status pending and leaves the Order's
\* order_status and payment_status as they were.
C10_GatewayPaymentKeepsStatus ==
  \A u \in Users, o \in OrderIds :
    ~ENABLED (/\ ConfirmPayment(u, o, "card")
              /\ response' = Resp(200, "Payment confirmed successfully")
              /\ ~GatewayPaymentEffect(o))

\* C11: Confirm Payment on an Order whose payment_status is not pending
\* (paid, refunded) is rejected (for the buyer, with "Payment already
\* processed"), inserts no Transaction and changes no table.
C11_ProcessedPaymentRejected ==
  \A u \in Users, o \in OrderIds, m \in PaymentMethods :
    orders[o].payment_status # "pending" =>
      ~ENABLED (/\ ConfirmPayment(u, o, m)
                /\ ~(/\ response'.code # 200
                     /\ u = orders[o].buyer_id =>
                          response' = Resp(400, "Payment already processed")
                     /\ UNCHANGED db))

\* The buyer's Confirm Payment was just rejected while one Order is refunded
\* and the other paid.
C11_Witness ==
  /\ response = Resp(400, "Payment already processed")
  /\ Len(orders) = 2
  /\ orders[1].payment_status = "refunded"
  /\ orders[2].payment_status = "paid"
  /\ Len(transactions[1]) = 2
  /\ Len(transactions[2]) = 1

\* What a successful ship_order of order o leaves behind.
ShipOrderEffect(o) ==
  /\ Len(shipments'[o]) = Len(shipments[o]) + 1
  /\ SubSeq(shipments'[o], 1, Len(shipments[o])) = shipments[o]
  /\ Last(shipments'[o]).order_id = o
  /\ Last(shipments'[o]).status = "picked_up"
  /\ orders'[o].order_status = "shipped"
  /\ orders'[o].shipped_at # NULL
  /\ items'[orders[o].item_id].status = "sold"
  /\ \A p \in OrderIds \ {o} : orders'[p] = orders[p] /\ shipments'[p] = shipments[p]
  /\ \A j \in ItemIds \ {orders[o].item_id} : items'[j] = items[j]
  /\ Len(orders') = Len(orders)

\* C12: a successful Ship Order appends one Shipment with status picked_up
\* to the Order, sets order_status to shipped with shipped_at set and sets
\* the Order's Item to sold, in one step; no other Order, Shipment or Item
\* changes.
C12_ShipOrderEffect ==
  \A u \in Users, o \in 1..MaxOrders, t \in TrackingNumbers :
    ~ENABLED (/\ ShipOrder(u, o, t)
              /\ response' = Resp(200, "Order shipped successfully")
              /\ ~ShipOrderEffect(o))

\* The second Order was just shipped, beside a first Order still pending
\* on its reserved Item.
C12_Witness ==
  /\ response = Resp(200, "Order shipped successfully")
  /\ Len(orders) = 2
  /\ orders[1].order_status = "pending"
  /\ items[orders[1].item_id].status = "reserved"
  /\ shipments[1] = <<>>
  /\ orders[2].order_status = "shipped"
  /\ orders[2].shipped_at # NULL
  /\ Len(shipments[2]) = 1
  /\ shipments[2][1].status = "picked_up"
  /\ items[orders[2].item_id].status = "sold"

\* An Order has a Shipment that was delivered.
HasDeliveredShipment(o) ==
  \E k \in 1..Len(shipments[o]) :
    /\ shipments[o][k].status = "delivered"
    /\ shipments[o][k].actual_delivery # NULL

\* What a successful confirm_delivery of order o leaves behind.
ConfirmDeliveryEffect(o) ==
  /\ response' = Resp(200, "Delivery confirmed successfully")
  /\ orders'[o].order_status = "delivered"
  /\ orders'[o].delivered_at # NULL
  /\ Len(shipments'[o]) = Len(shipments[o])
  /\ \E k \in 1..Len(shipments'[o]) :
       /\ shipments'[o][k].status = "delivered"
       /\ shipments'[o][k].actual_delivery # NULL

\* C13: Confirm Delivery by the buyer of a shipped Order sets order_status
\* to delivered with delivered_at set and sets the Order's Shipment to
\* delivered with actual_delivery set; in any other order_status, or from
\* anyone else, it is rejected and changes no table.  Every Order that is
\* delivered or completed has a Shipment with status delivered.
C13_DeliveryNeedsShippedOrder ==
  /\ \A o \in OrderIds :
       orders[o].order_status \in {"delivered", "completed"} => HasDeliveredShipment(o)
  /\ \A u \in Users, o \in OrderIds :
       IF orders[o].order_status = "shipped" /\ orders[o].buyer_id = u
         THEN ~ENABLED (ConfirmDelivery(u, o) /\ ~ConfirmDeliveryEffect(o))
         ELSE ~ENABLED (/\ ConfirmDelivery(u, o)
                        /\ ~(response'.code # 200 /\ UNCHANGED db))

\* A delivery was just confirmed: one Order delivered with its Shipment
\* delivered, beside an Order completed earlier.
C13_Witness ==
  /\ response = Resp(200, "Delivery confirmed successfully")
  /\ Len(orders) = 2
  /\ orders[1].order_status = "completed"
  /\ orders[2].order_status = "delivered"
  /\ orders[2].delivered_at # NULL
  /\ HasDeliveredShipment(1)
  /\ HasDeliveredShipment(2)

\* What a successful cancel_order of order o does to the Order and its Item.
CancelOrderEffect(o) ==
  /\ response' = Resp(200, "Order cancelled successfully")
  /\ orders'[o].order_status = "cancelled"
  /\ items'[orders[o].item_id].status = "available"

\* C14: Cancel Order by the buyer or the seller of an Order that is pending
\* or confirmed sets order_status to cancelled and the Order's Item to
\* available; when the Order is shipped, delivered, completed or cancelled
\* the call is rejected and changes no Order, Item or Transaction.
C14_CancelOnlyBeforeShipping ==
  \A u \in Users, o \in OrderIds :
    (u = orders[o].buyer_id \/ u = orders[o].seller_id) =>
      IF orders[o].order_status \in {"pending", "confirmed"}
        THEN ~ENABLED (CancelOrder(u, o) /\ ~CancelOrderEffect(o))
        ELSE ~ENABLED (/\ CancelOrder(u, o)
                       /\ ~(/\ response' =
                                 Resp(400, "Order cannot be cancelled in current status")
                            /\ UNCHANGED db))

\* A Cancel Order was just rejected: one Order is shipped and its Item sold,
\* the other was cancelled after payment and its Item is available again.
C14_Witness ==
  /\ response = Resp(400, "Order cannot be cancelled in current status")
  /\ Len(orders) = 2
  /\ orders[1].order_status = "cancelled"
  /\ orders[1].payment_status = "refunded"
  /\ items[orders[1].item_id].status = "available"
  /\ orders[2].order_status = "shipped"
  /\ items[orders[2].item_id].status = "sold"
  /\ orders[1].item_id # orders[2].item_id

\* Some Order references item i.
Referenced(i) == \E o \in OrderIds : orders[o].item_id = i

\* C15: no update_item or delete_item step changes the status of an Item
\* that an Order references.
C15_ItemStatusOnlyByLedger ==
  [][\A i \in ItemIds :
       (Referenced(i) /\ items'[i].status # items[i].status) =>
         response'.text \notin {"Item updated successfully", "Item deleted successfully"}]_vars

Money(order) ==
  <<order.item_price, order.shipping_cost, order.buyer_protection_fee,
    order.total_price, order.currency>>

\* Every refund is of the Order's stored total_price and every payout of its
\* stored item_price + shipping_cost.
AmountsFromStoredValues ==
  \A o \in OrderIds : \A k \in 1..Len(transactions[o]) :
    /\ transactions[o][k].transaction_type = "refund" =>
         transactions[o][k].amount = orders[o].total_price
    /\ transactions[o][k].transaction_type = "payout" =>
         transactions[o][k].amount = orders[o].item_price + orders[o].shipping_cost

\* C17: no step (Confirm Payment, Ship, Confirm Delivery, Complete, Cancel,
\* Update Item, Delete Item, a later Create Order) changes the item_price,
\* shipping_cost, buyer_protection_fee, total_price or currency of an
\* existing Order, and every refund and payout amount is derived from these
\* stored values.
C17_MoneyFixedAtCreation ==
  /\ []AmountsFromStoredValues
  /\ [][\A o \in OrderIds : Money(orders'[o]) = Money(orders[o])]_vars

\* The first listing was re-priced after it was ordered; its Order was
\* refunded at the stored total, and the other Order paid out.
C17_Witness ==
  /\ Len(orders) = 2
  /\ orders[1].item_id = "i1"
  /\ items["i1"].price # orders[1].item_price
  /\ orders[1].payment_status = "refunded"
  /\ Last(transactions[1]).transaction_type = "refund"
  /\ Last(transactions[1]).amount = orders[1].total_price
  /\ orders[2].order_status = "completed"
  /\ Last(transactions[2]).transaction_type = "payout"
  /\ Last(transactions[2]).amount = orders[2].item_price + orders[2].shipping_cost

\* The amounts of the Order that create_order stores for item i and the
\* shipping input s: the listed price, the override (or 15.00) as a 2-decimal
\* column keeps it, the fee rounded to 2 decimals, and their sum.
CreateOrderPricing(i, s) ==
  LET new == orders'[Len(orders) + 1] IN
  /\ new.item_price = items[i].price
  /\ new.shipping_cost = Numeric2(ShippingCost(s))
  /\ new.buyer_protection_fee = Numeric2(BuyerProtectionFee(items[i].price))
  /\ new.total_price = new.item_price + new.shipping_cost + new.buyer_protection_fee

\* The worked example: 100.00 with default shipping gives fee 7.50, total
\* 122.50 and, once completed, a payout of 115.00.
PricingExample ==
  \A o \in OrderIds :
    (orders[o].item_price = 1000000 /\ orders[o].shipping_cost = 150000) =>
      /\ orders[o].buyer_protection_fee = 75000
      /\ orders[o].total_price = 1225000
      /\ orders[o].order_status = "completed" =>
           /\ Last(transactions[o]).transaction_type = "payout"
           /\ Last(transactions[o]).amount = 1150000

\* C18: every successful Create Order stores item_price = the listed price,
\* shipping_cost = the override if supplied else 15.00, buyer_protection_fee
\* = 5% of the price + 2.50 rounded to 2 decimals, and total_price = the sum
\* of the three; 100.00 with default shipping gives 7.50, 122.50 and a
\* payout of 115.00.
C18_PricingFormula ==
  /\ PricingExample
  /\ \A u \in Users, i \in ItemIds, a \in AddrIds, s \in ShippingInputs :
       ~ENABLED (/\ CreateOrder(u, i, a, s)
                 /\ response' = Resp(201, "Order created successfully")
                 /\ ~CreateOrderPricing(i, s))

\* C19: Create Order requested by the Item's own seller is rejected, with
\* "Cannot buy your own item" when the Item is available, and changes no
\* table; no Order has its buyer equal to its seller.
C19_NoSelfPurchase ==
  /\ \A o \in OrderIds : orders[o].buyer_id # orders[o].seller_id
  /\ \A u \in Users, i \in ItemIds, a \in AddrIds, s \in ShippingInputs :
       items[i].seller_id = u =>
         ~ENABLED (/\ CreateOrder(u, i, a, s)
                   /\ ~(/\ response'.code # 201
                        /\ items[i].status = "available" =>
                             response' = Resp(400, "Cannot buy your own item")
                        /\ UNCHANGED db))

\* The seller's Create Order on an own, available listing was just rejected,
\* with an Order of somebody else already in the table.
C19_Witness ==
  /\ response = Resp(400, "Cannot buy your own item")
  /\ Len(orders) = 1
  /\ orders[1].item_id = "i1"
  /\ items["i2"].status = "available"

\* The request is answered with the NotFound error and no table changes.
Refused == response' = NotFound /\ UNCHANGED db

\* C20, the Order's handlers: Confirm Payment, Confirm Delivery and Complete
\* Order from anyone but the Order's buyer, Ship Order from anyone but its
\* seller, Cancel Order from anyone but its buyer or seller, and each of
\* them on an unknown Order, are answered NotFound and change no table.
OnlyPartiesAct ==
  \A u \in Users, o \in 1..MaxOrders :
    /\ (o \notin OrderIds \/ orders[o].buyer_id # u) =>
         /\ \A m \in PaymentMethods : ~ENABLED (ConfirmPayment(u, o, m) /\ ~Refused)
         /\ ~ENABLED (ConfirmDelivery(u, o) /\ ~Refused)
         /\ ~ENABLED (CompleteOrder(u, o) /\ ~Refused)
    /\ (o \notin OrderIds \/ orders[o].seller_id # u) =>
         \A t \in TrackingNumbers : ~ENABLED (ShipOrder(u, o, t) /\ ~Refused)
    /\ (o \notin OrderIds \/ (orders[o].buyer_id # u /\ orders[o].seller_id # u)) =>
         ~ENABLED (CancelOrder(u, o) /\ ~Refused)

\* C20, Create Order: with an unknown Item, or a shipping address that is
\* not the requester's, it creates nothing and changes no table; it is
\* answered NotFound unless an earlier check of the Item refused it first.
OnlyOwnAddress ==
  \A u \in Users, i \in ItemIds \cup {UnknownItem}, a \in AddrIds, s \in ShippingInputs :
    (i = UnknownItem \/ addresses[a] # u) =>
      ~ENABLED (/\ CreateOrder(u, i, a, s)
                /\ ~(/\ response'.code # 201
                     /\ UNCHANGED db
                     /\ (i = UnknownItem
                           \/ (items[i].status = "available" /\ items[i].seller_id # u)) =>
                          response' = NotFound))

\* C20: each operation is accepted only from the party it belongs to; a
\* call by anyone else, or with an unknown identifier, fails with NotFound
\* and leaves every Order, Item, Transaction and Shipment unchanged.
C20_OnlyPartiesAccepted == OnlyPartiesAct /\ OnlyOwnAddress

\* A request was just answered NotFound, with one Order confirmed and the
\* other shipped.
C20_Witness ==
  /\ response = NotFound
  /\ Len(orders) = 2
  /\ orders[1].order_status = "confirmed"
  /\ orders[2].order_status = "shipped"

\* No two Shipment rows carry the same supplied tracking number.
TrackingNumbersUnique ==
  \A o1 \in OrderIds, o2 \in OrderIds :
    \A k1 \in 1..Len(shipments[o1]), k2 \in 1..Len(shipments[o2]) :
      (/\ shipments[o1][k1].tracking_number # NULL
       /\ shipments[o1][k1].tracking_number = shipments[o2][k2].tracking_number)
        => (o1 = o2 /\ k1 = k2)

\* Some Shipment row carries tracking number t.
TrackingUsed(t) ==
  \E o \in OrderIds : \E k \in 1..Len(shipments[o]) : shipments[o][k].tracking_number = t

ShipAccepted(o, t) ==
  ~ENABLED (/\ ShipOrder(orders[o].seller_id, o, t)
            /\ response' # Resp(200, "Order shipped successfully"))

\* The seller's ship_order of order o with tracking number t is answered
\* "Order cannot be shipped in current status" and changes no table.
ShipRefused(o, t) ==
  ~ENABLED (/\ ShipOrder(orders[o].seller_id, o, t)
            /\ ~(/\ response' = Resp(400, "Order cannot be shipped in current status")
                 /\ UNCHANGED db))

\* C22 as the spec words it: the seller's Ship Order (with a tracking number
\* not in use) is accepted whenever order_status is confirmed or
\* payment_status is paid.
C22_PaidOrderShippable ==
  \A o \in OrderIds, t \in TrackingNumbers :
    (/\ ~TrackingUsed(t) \/ t = NULL
     /\ orders[o].order_status = "confirmed" \/ orders[o].payment_status = "paid")
      => ShipAccepted(o, t)

\* C22: the seller's Ship Order (with a tracking number not in use) is
\* accepted exactly when order_status is confirmed; an Order that is paid
\* but already shipped, delivered or completed is refused and nothing
\* changes.
C22_ConfirmedOrderShippable ==
  \A o \in OrderIds, t \in TrackingNumbers :
    (~TrackingUsed(t) \/ t = NULL) =>
      IF orders[o].order_status = "confirmed"
        THEN ShipAccepted(o, t)
        ELSE ShipRefused(o, t)

\* The seller's Ship Order was just refused although every Order is paid:
\* one is shipped, the other delivered.
C22_Witness ==
  /\ response = Resp(400, "Order cannot be shipped in current status")
  /\ Len(orders) = 2
  /\ orders[1].payment_status = "paid"
  /\ orders[2].payment_status = "paid"
  /\ orders[1].order_status = "delivered"
  /\ orders[2].order_status = "shipped"

\* C23: the Item of an Order that is pending or confirmed is reserved, and
\* the Item of an Order that is shipped, delivered or completed is sold, in
\* every reachable state.
C23_ItemMirrorsOrder ==
  \A o \in OrderIds :
    /\ orders[o].order_status \in {"pending", "confirmed"} =>
         items[orders[o].item_id].status = "reserved"
    /\ orders[o].order_status \in {"shipped", "delivered", "completed"} =>
         items[orders[o].item_id].status = "sold"

\* The number of Transaction rows of order o with the given type.
CountOfType(o, type) ==
  Cardinality({k \in 1..Len(transactions[o]) : transactions[o][k].transaction_type = type})

\* An Order has at most one Shipment, one payout and one refund.
AtMostOneOfEach ==
  \A o \in OrderIds :
    /\ Len(shipments[o]) <= 1
    /\ CountOfType(o, "payout") <= 1
    /\ CountOfType(o, "refund") <= 1

\* The request is answered with a rejection and no table changes.
Rejected == response'.code >= 400 /\ UNCHANGED db

C25_RacesSerialised ==
  /\ AtMostOneOfEach
  /\ \A o \in OrderIds : ~(CountOfType(o, "refund") >= 1 /\ Len(shipments[o]) >= 1)

\* C26: each Item is referenced by at most one Order whose order_status is
\* not cancelled, in every reachable state.
C26_OneLiveOrderPerItem ==
  \A o1 \in OrderIds, o2 \in OrderIds :
    (/\ orders[o1].item_id = orders[o2].item_id
     /\ orders[o1].order_status # "cancelled"
     /\ orders[o2].order_status # "cancelled") => o1 = o2

\* Order o has a payment Transaction with status success for its total_price.
HasSuccessfulPayment(o) ==
  \E k \in 1..Len(transactions[o]) :
    /\ transactions[o][k].transaction_type = "payment"
    /\ transactions[o][k].status = "success"
    /\ transactions[o][k].amount = orders[o].total_price

\* An Order that is confirmed, shipped, delivered or completed is paid and
\* has its successful payment on record.
PaidBeforeGoodsMove ==
  \A o \in OrderIds :
    orders[o].order_status \in {"confirmed", "shipped", "delivered", "completed"} =>
      /\ orders[o].payment_status = "paid"
      /\ HasSuccessfulPayment(o)

RECURSIVE SumAmounts(_, _)
\* The sum of the amounts of the rows of an Order's ledger at the positions ks.
SumAmounts(rows, ks) ==
  IF ks = {} THEN 0
  ELSE LET k == CHOOSE x \in ks : TRUE
       IN rows[k].amount + SumAmounts(rows, ks \ {k})

\* What the ledger paid back or out for Order o.
PaidOut(o) ==
  SumAmounts(transactions[o],
             {k \in 1..Len(transactions[o]) :
                transactions[o][k].transaction_type \in {"refund", "payout"}})

\* What the ledger took in for Order o.
TakenIn(o) ==
  SumAmounts(transactions[o],
             {k \in 1..Len(transactions[o]) :
                /\ transactions[o][k].transaction_type = "payment"
                /\ transactions[o][k].status = "success"})

\* C28: in every reachable state the refund and payout amounts of an Order
\* sum to at most its successful payment amounts, and no Order has both a
\* refund and a payout Transaction.
C28_NeverPaysOutMoreThanTakenIn ==
  \A o \in OrderIds :
    /\ PaidOut(o) <= TakenIn(o)
    /\ ~(CountOfType(o, "refund") >= 1 /\ CountOfType(o, "payout") >= 1)

\* C29: after any sequence of Confirm Payment calls, with any mix of cod and
\* gateway-backed methods, an Order has at most one Transaction of type
\* payment.
C29_OnePaymentPerOrder ==
  \A o \in OrderIds : CountOfType(o, "payment") <= 1

\* ------------------------------------------- requests that override shipping

\* The shipping_cost of a Create Order body: the key absent, or a negative
\* number.
NegativeShipping == "-5.00"

ShippingOverrides == {NoShipping, NegativeShipping}

\* Sequential requests whose Create Order bodies may carry a negative
\* shipping_cost.
NextShipping ==
  \/ \E u \in Users, i \in ItemIds, s \in ShippingOverrides : CreateOrder(u, i, "a2", s)
  \/ \E u \in Users, o \in 1..MaxOrders : ConfirmPayment(u, o, "cod")
  \/ \E u \in Users, o \in 1..MaxOrders : ShipOrder(u, o, NULL)
  \/ \E u \in Users, o \in 1..MaxOrders : ConfirmDelivery(u, o)
  \/ \E u \in Users, o \in 1..MaxOrders : CompleteOrder(u, o)
  \/ \E u \in Users, o \in 1..MaxOrders : CancelOrder(u, o)

SpecShipping == Init /\ [][NextShipping]_vars

\* C30: every stored Order has shipping_cost >= 0 and total_price >=
\* item_price + buyer_protection_fee, and every payout is at least the
\* Order's item_price, because Create Order refuses a negative shipping_cost.
C30_ShippingNeverNegative ==
  \A o \in OrderIds :
    /\ orders[o].shipping_cost >= 0
    /\ orders[o].total_price >= orders[o].item_price + orders[o].buyer_protection_fee
    /\ \A k \in 1..Len(transactions[o]) :
         transactions[o][k].transaction_type = "payout" =>
           transactions[o][k].amount >= orders[o].item_price

=============================================================================
